---- MODULE Spec2Model ----
\* A model of nipiezojenapy's PiezoControl (src/src/nipiezojenapy/controller.py):
\* a three-axis piezo stage driven through analog output channels, with an
\* optional read-back through analog input channels.
EXTENDS Integers, Sequences, FiniteSets, TLC

\* ---------------------------------------------------------------- values
\* A Python value is a record [t, n, d]:
\*   t = "num"  : an int or a finite float, the exact rational n/d (d > 0, reduced)
\*   t = "nan"  : float('nan'), of type float
\*   t = "str"  : a non-empty string such as "a"
\*   t = "none" : None
RECURSIVE GCD(_, _)
GCD(a, b) == IF b = 0 THEN a ELSE GCD(b, a % b)

Abs(a) == IF a < 0 THEN -a ELSE a

Rat(n, d) ==
    LET s == IF d < 0 THEN -1 ELSE 1
        g == GCD(Abs(n), Abs(d))
    IN  [t |-> "num", n |-> (s * n) \div g, d |-> (s * d) \div g]

Num(n) == Rat(n, 1)
NaN == [t |-> "nan", n |-> 0, d |-> 1]
None == [t |-> "none", n |-> 0, d |-> 1]
Str == [t |-> "str", n |-> 1, d |-> 1]

\* bool(v), as `if x:` evaluates it: None and zero are falsy; nan, a non-zero
\* number and a non-empty string are truthy.
Truthy(v) ==
    CASE v.t = "none" -> FALSE
      [] v.t = "num"  -> v.n # 0
      [] v.t = "nan"  -> TRUE
      [] v.t = "str"  -> TRUE

\* type(v) in [type(1.0), type(1)]
IsNumberType(v) == v.t \in {"num", "nan"}

\* a < b on numbers; every comparison with nan is False.
Lt(a, b) == a.t = "num" /\ b.t = "num" /\ a.n * b.d < b.n * a.d

\* a + b; the sum of a number and a string raises TypeError (CanAdd is false).
CanAdd(a, b) == IsNumberType(a) /\ IsNumberType(b)
Add(a, b) ==
    IF a.t = "nan" \/ b.t = "nan" THEN NaN
    ELSE Rat(a.n * b.d + b.n * a.d, a.d * b.d)

Mul(a, b) ==
    IF a.t = "nan" \/ b.t = "nan" THEN NaN
    ELSE Rat(a.n * b.n, a.d * b.d)

\* a / b for b a non-zero number.
Div(a, b) ==
    IF a.t = "nan" \/ b.t = "nan" THEN NaN
    ELSE Rat(a.n * b.d, a.d * b.n)

\* ------------------------------------------------------------- constants
scale_microns_per_volt == 8
minimum_allowed_position == 0
maximum_allowed_position == 80
write_channels == <<"ao0", "ao1", "ao2">>
read_tasks == <<"xr", "yr", "zr">>
NoReadChannels == <<>>
ReadChannels == <<"ai0", "ai1", "ai2">>
Axes == 1..3

\* --------------------------------------------------------------- bounds
\* The number of calls the caller makes on one controller.
MaxCalls == 2

\* The values the caller passes for one axis of go_to_position: the common ones,
\* and the boundary cases.
CommonPositions == {None, Num(5), Num(81), Str}
Positions == CommonPositions \cup {Num(-1), Num(0), Num(78), Num(80), NaN}
\* The values the caller passes for one axis of step.
CommonDeltas == {None, Num(5), Num(-5), Str}
Deltas == CommonDeltas \cup {Num(0), Num(1), Num(82)}
\* The voltages an analog input channel may read back (5/8 V is 5 microns).
Voltages == {Rat(5, 8), NaN}

\* The argument triples the caller passes: common values on any axes, or any
\* value on one axis with the other two left out.
Triples(all, common) ==
    {a \in all \X all \X all :
        \/ \A i \in 1..3 : a[i] \in common
        \/ \E i \in 1..3 : \A m \in 1..3 \ {i} : a[m] = None}
GoToArgs == Triples(Positions, CommonPositions)
StepArgs == Triples(Deltas, CommonDeltas)

VARIABLES
    read_channels,      \* NoReadChannels (None) or ReadChannels
    last_write_values,  \* self.last_write_values
    ao,                 \* the voltage each analog output channel holds (None: never written)
    handles,            \* the nidaqmx tasks that are open
    pc,                 \* the statement control is at
    ret,                \* who called the running go_to_position / get_current_voltage
    g,                  \* go_to_position's arguments <<x, y, z>>
    k,                  \* the axis go_to_position is at
    s,                  \* step's arguments <<dx, dy, dz>>
    cur,                \* step's x, y, z = get_current_position()
    j,                  \* the axis step is at
    output,             \* get_current_voltage's output list
    r,                  \* the read get_current_voltage is at
    call,               \* the caller's call in progress, or its last one
    result,             \* how the caller's last call ended
    retval,             \* what the caller's last call returned
    warned,             \* the axes step logged a warning for, in the caller's call
    wrote,              \* the axes written by the running (or last) go_to_position
    settled,            \* the settle delays of the running (or last) go_to_position
    lwv0,               \* last_write_values when the caller's call began
    ao0,                \* ao when the caller's call began
    calls               \* the calls made so far

vars == <<read_channels, last_write_values, ao, handles, pc, ret, g, k, s, cur,
          j, output, r, call, result, retval, warned, wrote, settled, lwv0,
          ao0, calls>>

hw == <<last_write_values, ao>>
goLocals == <<g, k, wrote, settled>>
stepLocals == <<s, cur, j>>
gcvLocals == <<output, r>>
ghost == <<call, lwv0, ao0, calls>>

NoArgs == <<None, None, None>>

\* Mutant of NeverWritten: the entries start at 0.
NeverWrittenZero == Num(0)

\* The value of a last_write_values entry before the axis is first written.
NeverWritten == Num(-1)

\* `with nidaqmx.Task() as task:` opens a task on entry and closes it on exit.
OpenTasks(open, tasks) == open \cup tasks

\* Mutant of CloseTasks: the block's exit leaves the tasks open.
CloseTasksLeak(open, tasks) == open

CloseTasks(open, tasks) == open \ tasks

Init ==
    /\ read_channels \in {NoReadChannels, ReadChannels}
    /\ last_write_values = <<NeverWritten, NeverWritten, NeverWritten>>
    /\ ao = <<None, None, None>>
    /\ handles = {}
    /\ pc = "idle"
    /\ ret = "top"
    /\ g = NoArgs
    /\ k = 1
    /\ s = NoArgs
    /\ cur = NoArgs
    /\ j = 1
    /\ output = NoArgs
    /\ r = 1
    /\ call = [op |-> "none", args |-> NoArgs]
    /\ result = "none"
    /\ retval = NoArgs
    /\ warned = {}
    /\ wrote = {}
    /\ settled = 0
    /\ lwv0 = last_write_values
    /\ ao0 = ao
    /\ calls = 0

\* ------------------------------------------------------- pure functions
_microns_to_volts(microns) == Div(microns, Num(scale_microns_per_volt))

_volts_to_microns(volts) == Mul(Num(scale_microns_per_volt), volts)

\* Mutant of _validate_value: the upper bound is not checked.
ValidateNoUpperBound(position) ==
    IF ~IsNumberType(position) THEN "TypeError"
    ELSE IF Lt(position, Num(minimum_allowed_position)) THEN "ValueError"
    ELSE "ok"

\* _validate_value: "ok", or the exception it raises.
_validate_value(position) ==
    IF ~IsNumberType(position) THEN "TypeError"
    ELSE IF Lt(position, Num(minimum_allowed_position)) THEN "ValueError"
    ELSE IF Lt(Num(maximum_allowed_position), position) THEN "ValueError"
    ELSE "ok"

\* Mutant of Provided: `if x is not None:`.
ProvidedNotNone(v) == v.t # "none"

\* `if x:` of go_to_position and `if dx:` of step.
Provided(v) == Truthy(v)

\* The first axis from `from` on whose `if` is true (`if x:`, `if y:`, `if z:`
\* are evaluated in this order), or 4 when there is none.
NextProvided(args, from) ==
    IF \E i \in from..3 : Provided(args[i])
    THEN CHOOSE i \in from..3 :
             Provided(args[i]) /\ \A m \in from..(i - 1) : ~Provided(args[m])
    ELSE 4

\* The locals of a method that is not running hold nothing.
NoGoLocals == g' = NoArgs /\ k' = 1 /\ wrote' = {} /\ settled' = 0
NoStepLocals == s' = NoArgs /\ cur' = NoArgs /\ j' = 1
NoGcvLocals == output' = NoArgs /\ r' = 1

\* ------------------------------------------------------ go_to_position
\* Control enters go_to_position(args) and runs to the first `if` that is true,
\* or to the settle delay when none is.
GoEnter(args, from) ==
    /\ g' = args
    /\ wrote' = {}
    /\ settled' = 0
    /\ ret' = from
    /\ LET n == NextProvided(args, 1) IN
         IF n <= 3 THEN pc' = "go_if" /\ k' = n
         ELSE pc' = "go_sleep" /\ k' = 3

\* Control after go_to_position is through with axis k: the next `if` that is
\* true, or the settle delay.
GoNext ==
    LET n == NextProvided(g, k + 1) IN
      IF n <= 3 THEN pc' = "go_if" /\ k' = n
      ELSE pc' = "go_sleep" /\ k' = 3

\* Control in step from axis `from` on: the first `if` that is true, or step
\* returns.
StepFrom(args, from) ==
    LET n == NextProvided(args, from) IN
      IF n <= 3 THEN pc' = "step_if" /\ j' = n /\ result' = "running"
      ELSE pc' = "idle" /\ j' = 3 /\ result' = "returned"

\* step's `except ValueError`.
Caught(e) == e = "ValueError"

\* The caller calls go_to_position(x, y, z).
CallGoTo(args) ==
    /\ pc = "idle"
    /\ calls < MaxCalls
    /\ call' = [op |-> "go_to_position", args |-> args]
    /\ GoEnter(args, "top")
    /\ warned' = {}
    /\ result' = "running"
    /\ retval' = NoArgs
    /\ lwv0' = last_write_values
    /\ ao0' = ao
    /\ calls' = calls + 1
    /\ NoStepLocals
    /\ NoGcvLocals
    /\ UNCHANGED <<read_channels, hw, handles>>

\* _validate_value raises: go_to_position ends there, without the settle delay.
\* Called from step, a ValueError is caught and logged as a warning and step
\* goes on with its next axis; any other exception reaches the caller.
GoRaise ==
    /\ pc = "go_if"
    /\ _validate_value(g[k]) # "ok"
    /\ LET e == _validate_value(g[k]) IN
         IF ret = "step" /\ Caught(e)
         THEN /\ warned' = warned \cup {j}
              /\ StepFrom(s, j + 1)
         ELSE /\ pc' = "idle"
              /\ result' = e
              /\ UNCHANGED <<warned, j>>
    /\ UNCHANGED <<read_channels, hw, handles, ret, goLocals, s, cur,
                   gcvLocals, ghost, retval>>

\* The value is valid: the `with nidaqmx.Task()` block opens the axis's channel.
GoOpen ==
    /\ pc = "go_if"
    /\ _validate_value(g[k]) = "ok"
    /\ handles' = OpenTasks(handles, {write_channels[k]})
    /\ pc' = "go_with"
    /\ UNCHANGED <<read_channels, hw, ret, goLocals, stepLocals, gcvLocals,
                   ghost, result, retval, warned>>

\* task.write(...), self.last_write_values[k] = value, and the block's exit.
GoWrite ==
    /\ pc = "go_with"
    /\ ao' = [ao EXCEPT ![k] = _microns_to_volts(g[k])]
    /\ last_write_values' = [last_write_values EXCEPT ![k] = g[k]]
    /\ wrote' = wrote \cup {k}
    /\ handles' = CloseTasks(handles, {write_channels[k]})
    /\ GoNext
    /\ UNCHANGED <<read_channels, ret, g, settled, stepLocals, gcvLocals,
                   ghost, result, retval, warned>>

\* time.sleep(self.settling_time_in_seconds), and go_to_position returns.
GoSleep ==
    /\ pc = "go_sleep"
    /\ settled' = settled + 1
    /\ IF ret = "step" THEN StepFrom(s, j + 1)
       ELSE pc' = "idle" /\ result' = "returned" /\ j' = j
    /\ UNCHANGED <<read_channels, hw, handles, ret, g, k, wrote, s, cur,
                   gcvLocals, ghost, retval, warned>>

\* ------------------------------------------------- get_current_voltage
\* Entering the `with` block of get_current_voltage: the three read tasks are
\* opened together and stay open over the three reads.
GcvEnter(from) ==
    /\ handles' = OpenTasks(handles, {read_tasks[i] : i \in Axes})
    /\ output' = <<Num(-1), Num(-1), Num(-1)>>
    /\ r' = 1
    /\ ret' = from
    /\ pc' = "gcv_with"

\* The caller calls get_current_voltage().
CallGetVoltage ==
    /\ pc = "idle"
    /\ calls < MaxCalls
    /\ call' = [op |-> "get_current_voltage", args |-> NoArgs]
    /\ warned' = {}
    /\ lwv0' = last_write_values
    /\ ao0' = ao
    /\ calls' = calls + 1
    /\ IF read_channels # NoReadChannels
       THEN /\ GcvEnter("top")
            /\ result' = "running"
            /\ retval' = NoArgs
       ELSE /\ result' = "returned"
            /\ retval' = <<Num(-1), Num(-1), Num(-1)>>
            /\ output' = <<Num(-1), Num(-1), Num(-1)>>
            /\ r' = 1
            /\ ret' = "top"
            /\ UNCHANGED <<handles, pc>>
    /\ NoGoLocals
    /\ NoStepLocals
    /\ UNCHANGED <<read_channels, hw>>

\* What get_current_position() returns with no read channels configured.
OpenLoopPosition == last_write_values

\* The caller calls get_current_position().
CallGetPosition ==
    /\ pc = "idle"
    /\ calls < MaxCalls
    /\ call' = [op |-> "get_current_position", args |-> NoArgs]
    /\ warned' = {}
    /\ lwv0' = last_write_values
    /\ ao0' = ao
    /\ calls' = calls + 1
    /\ IF read_channels # NoReadChannels
       THEN /\ GcvEnter("get_current_position")
            /\ result' = "running"
            /\ retval' = NoArgs
       ELSE /\ result' = "returned"
            /\ retval' = OpenLoopPosition
            /\ NoGcvLocals
            /\ ret' = "top"
            /\ UNCHANGED <<handles, pc>>
    /\ NoGoLocals
    /\ NoStepLocals
    /\ UNCHANGED <<read_channels, hw>>

ToMicrons(volts) == [i \in Axes |-> _volts_to_microns(volts[i])]

\* output[r] = <task>.read(); after the third read the block exits, the three
\* tasks are closed and get_current_voltage returns to whoever called it.
GcvRead(v) ==
    /\ pc = "gcv_with"
    /\ output' = [output EXCEPT ![r] = v]
    /\ IF r < 3
       THEN /\ r' = r + 1
            /\ UNCHANGED <<handles, pc, cur, j, result, retval>>
       ELSE /\ r' = r
            /\ handles' = CloseTasks(handles, {read_tasks[i] : i \in Axes})
            /\ CASE ret = "top" ->
                      /\ pc' = "idle"
                      /\ result' = "returned"
                      /\ retval' = output'
                      /\ UNCHANGED <<cur, j>>
                 [] ret = "get_current_position" ->
                      /\ pc' = "idle"
                      /\ result' = "returned"
                      /\ retval' = ToMicrons(output')
                      /\ UNCHANGED <<cur, j>>
                 [] ret = "step" ->
                      /\ cur' = ToMicrons(output')
                      /\ StepFrom(s, 1)
                      /\ UNCHANGED retval
    /\ UNCHANGED <<read_channels, hw, ret, goLocals, s, ghost, warned>>

\* ---------------------------------------------------------------- step
\* The caller calls step(dx, dy, dz); its first statement is
\* x, y, z = self.get_current_position().
CallStep(args) ==
    /\ pc = "idle"
    /\ calls < MaxCalls
    /\ call' = [op |-> "step", args |-> args]
    /\ s' = args
    /\ warned' = {}
    /\ retval' = NoArgs
    /\ lwv0' = last_write_values
    /\ ao0' = ao
    /\ calls' = calls + 1
    /\ IF read_channels # NoReadChannels
       THEN /\ GcvEnter("step")
            /\ result' = "running"
            /\ cur' = NoArgs
            /\ j' = 1
       ELSE /\ cur' = OpenLoopPosition
            /\ StepFrom(args, 1)
            /\ NoGcvLocals
            /\ ret' = "top"
            /\ UNCHANGED handles
    /\ NoGoLocals
    /\ UNCHANGED <<read_channels, hw>>

\* x + dx raises TypeError (dx is not a number): outside `except ValueError`'s
\* reach, it ends step.
StepRaise ==
    /\ pc = "step_if"
    /\ ~CanAdd(cur[j], s[j])
    /\ pc' = "idle"
    /\ result' = "TypeError"
    /\ UNCHANGED <<read_channels, hw, handles, ret, goLocals, stepLocals,
                   gcvLocals, ghost, retval, warned>>

\* The one-axis keyword arguments of step's call of go_to_position.
OneAxis(i, v) == [a \in Axes |-> IF a = i THEN v ELSE None]

\* self.go_to_position(<axis> = <current> + <delta>)
StepGo ==
    /\ pc = "step_if"
    /\ CanAdd(cur[j], s[j])
    /\ GoEnter(OneAxis(j, Add(cur[j], s[j])), "step")
    /\ UNCHANGED <<read_channels, hw, handles, stepLocals, gcvLocals, ghost,
                   result, retval, warned>>

Next ==
    \/ \E args \in GoToArgs : CallGoTo(args)
    \/ GoRaise
    \/ GoOpen
    \/ GoWrite
    \/ GoSleep
    \/ \E args \in StepArgs : CallStep(args)
    \/ StepRaise
    \/ StepGo
    \/ CallGetPosition
    \/ CallGetVoltage
    \/ \E v \in Voltages : GcvRead(v)

Spec == Init /\ [][Next]_vars

\* ============================================================== claims
\* The caller's call `op` has ended (returned or raised).
Finished(op) == pc = "idle" /\ call.op = op /\ result # "running"

\* minimum_allowed_position <= v <= maximum_allowed_position, for a number v.
InBounds(v) ==
    /\ v.t = "num"
    /\ minimum_allowed_position * v.d <= v.n
    /\ v.n <= maximum_allowed_position * v.d

\* The voltage p / scale_microns_per_volt of a position p.
VoltsOf(p) ==
    IF p.t = "num" THEN Rat(p.n, p.d * scale_microns_per_volt) ELSE p

\* A voltage that is p / scale_microns_per_volt for some position p in bounds.
VoltsInBounds(v) ==
    /\ v.t = "num"
    /\ minimum_allowed_position * v.d <= v.n * scale_microns_per_volt
    /\ v.n * scale_microns_per_volt <= maximum_allowed_position * v.d

\* Axis i is as it was when the caller's call began.
Untouched(i) == last_write_values[i] = lwv0[i] /\ ao[i] = ao0[i]

\* Axis i holds position p: written to the channel and recorded.
Holds(i, p) == last_write_values[i] = p /\ ao[i] = VoltsOf(p)

\* C1: every voltage written to an analog output channel is p / scale for a
\* position p within [minimum_allowed_position, maximum_allowed_position].
\* (ao[i] is the last voltage written to channel i, so checking it in every
\* state checks every write.)
C1_EveryWriteWithinBounds ==
    \A i \in Axes : ao[i] = None \/ VoltsInBounds(ao[i])

\* C2: last_write_values[i] is -1 if axis i was never written, and otherwise
\* the position of the most recent hardware write on axis i, which lies within
\* the bounds; read operations do not change it.
C2_LastWriteValues ==
    /\ \A i \in Axes :
         \/ last_write_values[i] = Num(-1) /\ ao[i] = None
         \/ InBounds(last_write_values[i]) /\ ao[i] = VoltsOf(last_write_values[i])
    /\ (call.op \in {"get_current_position", "get_current_voltage"}) =>
         \A i \in Axes : Untouched(i)

\* C2 without its bound on the recorded position: what remains true of the code.
C2_LastWriteValuesAnyNumber ==
    /\ \A i \in Axes :
         \/ last_write_values[i] = Num(-1) /\ ao[i] = None
         \/ /\ last_write_values[i] # Num(-1)
            /\ IsNumberType(last_write_values[i])
            /\ ao[i] = VoltsOf(last_write_values[i])
    /\ (call.op \in {"get_current_position", "get_current_voltage"}) =>
         \A i \in Axes : Untouched(i)

\* C3: for every x in [0, 80], both endpoints included, go_to_position(x=x)
\* sets last_write_values[0] to x, writes x / scale to the x channel and leaves
\* the y and z axes alone.
C3_GoToValidX ==
    (/\ Finished("go_to_position")
     /\ InBounds(call.args[1])
     /\ call.args[2] = None
     /\ call.args[3] = None)
    => /\ result = "returned"
       /\ Holds(1, call.args[1])
       /\ Untouched(2)
       /\ Untouched(3)
       /\ wrote = {1}

\* An argument the caller provides: not None and not zero.
Given(v) == v # None /\ v # Num(0)

\* A value that is non-numeric, or a number outside the bounds.
Invalid(v) == v.t = "str" \/ (v.t = "num" /\ ~InBounds(v))

\* The first provided axis of `args` whose value is invalid, or 4.
FirstInvalid(args) ==
    IF \E i \in Axes : Given(args[i]) /\ Invalid(args[i])
    THEN CHOOSE i \in Axes :
             /\ Given(args[i]) /\ Invalid(args[i])
             /\ \A m \in 1..(i - 1) : ~(Given(args[m]) /\ Invalid(args[m]))
    ELSE 4

\* C4: go_to_position takes the provided axes in the order x, y, z and fails at
\* the first one that is non-numeric (TypeError) or out of bounds (ValueError):
\* that axis and the later ones are neither written nor recorded, the provided
\* axes before it are written and recorded and stay so.
C4_FailsAtFirstInvalidAxis ==
    Finished("go_to_position") =>
      LET args == call.args
          bad == FirstInvalid(args)
      IN  /\ bad = 4 => result = "returned"
          /\ bad <= 3 =>
               result = (IF args[bad].t = "str" THEN "TypeError" ELSE "ValueError")
          /\ wrote = {i \in 1..(bad - 1) : Given(args[i])}
          /\ \A i \in Axes :
               IF i < bad /\ Given(args[i]) THEN Holds(i, args[i])
               ELSE Untouched(i)

\* C4's case: the y axis fails after the x axis was written.
C4_Witness ==
    /\ Finished("go_to_position")
    /\ call.args = <<Num(5), Num(81), Num(5)>>
    /\ result = "ValueError"
    /\ last_write_values[1] = Num(5)
    /\ wrote = {1}

\* The deltas of a step call are numbers or left out.
NumericDeltas == \A i \in Axes : call.args[i].t \in {"num", "none"}

\* The position step aims at on axis i.
Target(i) == Add(cur[i], call.args[i])

\* C5: step never raises ValueError; an axis whose target is out of bounds is
\* skipped with a warning and stays as it was, and every other axis whose
\* target is in bounds is written and recorded.
C5_StepSkipsOnlyOutOfBounds ==
    (Finished("step") /\ NumericDeltas) =>
      /\ result = "returned"
      /\ \A i \in Axes :
           Given(call.args[i]) =>
             /\ (Target(i).t = "num" /\ ~InBounds(Target(i))) =>
                  i \in warned /\ Untouched(i)
             /\ InBounds(Target(i)) =>
                  i \notin warned /\ Holds(i, Target(i))

\* C6: with no read channels configured, get_current_position() returns
\* last_write_values, and after go_to_position(x=v) with v in bounds it returns
\* v on the x axis.
C6_OpenLoopRoundTrip ==
    read_channels = NoReadChannels =>
      /\ Finished("get_current_position") => retval = last_write_values
      /\ (/\ Finished("go_to_position")
          /\ InBounds(call.args[1])
          /\ call.args[2] = None
          /\ call.args[3] = None) => OpenLoopPosition[1] = call.args[1]

\* C7: at most one channel handle is open in any state, and none once an
\* operation has returned or raised.
C7_AtMostOneHandle ==
    /\ Cardinality(handles) <= 1
    /\ pc = "idle" => handles = {}

\* C7 as amended: a write holds the handle of its own axis alone; the three
\* reads of get_current_voltage hold the three read tasks together; no handle
\* is open anywhere else, in particular once an operation has returned or
\* raised.
C7_ScopedHandles ==
    /\ pc = "go_with" => handles = {write_channels[k]}
    /\ pc = "gcv_with" => handles = {read_tasks[i] : i \in Axes}
    /\ pc \notin {"go_with", "gcv_with"} => handles = {}

\* C7's case: between two reads of get_current_voltage three handles are open.
C7_Witness ==
    /\ pc = "gcv_with"
    /\ r = 3
    /\ Cardinality(handles) = 3

\* C8: within one go_to_position call no write follows the settle delay, the
\* delay happens at most once, and once control has left the call every write
\* of the call has been followed by the delay.
C8_SettleAfterEveryWrite ==
    /\ pc \in {"go_if", "go_with"} => settled = 0
    /\ settled <= 1
    /\ (pc \notin {"go_if", "go_with", "go_sleep"} /\ wrote # {}) => settled = 1

FreshStepX ==
    /\ read_channels = NoReadChannels
    /\ calls = 1
    /\ Finished("step")
    /\ call.args[1].t = "num"
    /\ call.args[2] = None
    /\ call.args[3] = None

\* What C10 says of step(dx=d) on a fresh controller, with target d - 1.
FreshStepOutcome(d) ==
    LET tgt == Add(d, Num(-1)) IN
      /\ result = "returned"
      /\ IF ~InBounds(tgt) THEN warned = {1} /\ wrote = {} /\ Untouched(1)
         ELSE IF d = Num(1) THEN warned = {} /\ wrote = {} /\ Untouched(1)
         ELSE warned = {} /\ Holds(1, tgt)
      /\ Untouched(2)
      /\ Untouched(3)

\* C10: on a fresh open-loop controller step(dx=d) targets d - 1: skipped with
\* a warning when d - 1 < 0 or d - 1 > 80, nothing when d = 1, and otherwise
\* (d - 1) / scale is written and last_write_values[0] = d - 1.
C10_FreshStep ==
    FreshStepX => FreshStepOutcome(call.args[1])

\* C10 as amended: the same for every non-zero d; step(dx=0) does nothing and
\* logs no warning, although its target -1 is out of bounds.
C10_FreshStepNonZero ==
    FreshStepX =>
      IF call.args[1] = Num(0)
      THEN /\ result = "returned"
           /\ warned = {}
           /\ \A i \in Axes : Untouched(i)
      ELSE FreshStepOutcome(call.args[1])

\* C10's case: step(dx=5) on a fresh controller moves x to 4.
C10_Witness ==
    /\ FreshStepX
    /\ call.args[1] = Num(5)
    /\ last_write_values[1] = Num(4)
    /\ ao[1] = Rat(4, 8)

====
